---- MODULE Spec2Model ----
(***************************************************************************)
(* Campaign scheduling engine of news-monitoring-agent.                    *)
(*                                                                         *)
(* Time is counted in minutes.  `clock` is the real (UTC) time; SQLite's   *)
(* CURRENT_TIMESTAMP writes `clock`, Python's datetime.now() reads         *)
(* `clock + tz`, the naive local time of the host.                         *)
(***************************************************************************)
EXTENDS Integers, Sequences, FiniteSets, TLC

\* ---------------------------------------------------------------- bounds
MaxAdvances == 1
MaxAdvancesDue == 3
MaxRows == 4
MaxRuns == 2
MaxRunsDue == 3
StartClock == 15810

\* ------------------------------------------------------------- constants
Hour == 60
Day == 1440
Week == 10080
TickInterval == 5
RetentionDays == 2
SuggestionThreshold == 5

NoTime == 0 - 1

CampaignIds == {"c1", "c2"}
Frequencies == {"15min", "hourly", "daily", "weekly"}
TzOffsets == {0, Hour}
Deltas == {5, 55, 1380, 8640}
Threads == {"sched", "web"}

\* ------------------------------------------------------------ time helpers
\* datetime.now(): the host's naive local time
Now(c, z) == c + z

\* datetime.date(): the calendar day of a naive timestamp
DateOf(t) == t \div Day

\* timedelta(...) of each frequency, as compared in get_campaigns_for_execution
Interval(f) ==
  CASE f = "15min" -> 15
    [] f = "hourly" -> Hour
    [] f = "daily" -> Day
    [] f = "weekly" -> Week
    [] OTHER -> NoTime

\* the should_run chain of get_campaigns_for_execution
ShouldRun(frequency, time_diff) ==
  \/ frequency = "15min" /\ time_diff >= 15
  \/ frequency = "hourly" /\ time_diff >= Hour
  \/ frequency = "daily" /\ time_diff >= Day
  \/ frequency = "weekly" /\ time_diff >= Week

\* one campaign's due test: `not last_check` or should_run
IsDue(row, now) ==
  \/ row.last_check = NoTime
  \/ ShouldRun(row.frequency, now - row.last_check)

\* ------------------------------------------------------------------ items
\* An article dict: 'titre'/'url' (one identity `id`), 'date' (naive
\* timestamp of publication), 'source'.
Item(i, d, s) == [id |-> i, date |-> d, source |-> s]

r1 == Item("r1", StartClock - 3 * Day, "rss")
r2 == Item("r2", StartClock - Hour, "rss")
r3 == Item("r3", StartClock, "rss")
t1 == Item("t1", StartClock - 30, "twitter")
t2 == Item("t2", StartClock, "twitter")

\* what feedparser may hand back for a query (feed.entries, in feed order)
RssFeeds == {<< >>, <<r1>>, <<r3>>, <<r3, r2, r3>>, <<r1, r2, r3>>}

\* what the tweet search may hand back
TweetFeeds == {<< >>, <<t1, t2>>}

\* the max_articles values a campaign is created with
MaxArticlesChoices == {2, 25}

\* seq[:n]
Take(seq, n) == SubSeq(seq, 1, IF n < Len(seq) THEN n ELSE Len(seq))

RECURSIVE InsertDesc(_, _)
\* insert x behind every element whose date is >= x.date (stable, newest first)
InsertDesc(x, seq) ==
  IF seq = << >> THEN <<x>>
  ELSE IF Head(seq).date >= x.date THEN <<Head(seq)>> \o InsertDesc(x, Tail(seq))
  ELSE <<x>> \o seq

RECURSIVE SortDesc(_)
\* results.sort(key=date, reverse=True)
SortDesc(seq) ==
  IF seq = << >> THEN << >>
  ELSE InsertDesc(seq[Len(seq)], SortDesc(SubSeq(seq, 1, Len(seq) - 1)))

RECURSIVE UniqueByUrl(_, _)
\* the seen_urls loop of fetch_articles_rss
UniqueByUrl(seq, seen) ==
  IF seq = << >> THEN << >>
  ELSE IF Head(seq).id \in seen THEN UniqueByUrl(Tail(seq), seen)
  ELSE <<Head(seq)>> \o UniqueByUrl(Tail(seq), seen \cup {Head(seq).id})

\* fetch_articles_rss for a non-empty query
FetchArticlesRss(feed, max_items) ==
  Take(UniqueByUrl(SortDesc(Take(feed, max_items)), {}), max_items)

\* fetch_twitter_articles(keywords, max_items=10)
FetchTwitterArticles(tweets) == Take(tweets, 10)

\* the synthetic entry built from the expansion terms
SuggestionArticle(now) == Item("suggestion", now, "AI Suggestions")

\* the return without the slice: everything collected
FetchArticlesMultiSourceUncapped(feed, tweets, max_items, expanded, now) ==
  LET all_articles == FetchArticlesRss(feed, max_items) \o FetchTwitterArticles(tweets)
  IN IF Len(all_articles) >= SuggestionThreshold /\ expanded
     THEN <<SuggestionArticle(now)>> \o all_articles
     ELSE all_articles

\* fetch_articles_multi_source(keywords, max_items, show_keyword_suggestions=True)
\* for a non-empty query; `expanded` says whether expand_keywords gave terms
FetchArticlesMultiSource(feed, tweets, max_items, expanded, now) ==
  LET all_articles == FetchArticlesRss(feed, max_items) \o FetchTwitterArticles(tweets)
      with_suggestion ==
        IF Len(all_articles) >= SuggestionThreshold /\ expanded
        THEN <<SuggestionArticle(now)>> \o all_articles
        ELSE all_articles
  IN Take(with_suggestion, max_items)

\* the "last 2 days" filter of _save_articles_for_user
RecentArticles(articles, now) ==
  SelectSeq(articles, LAMBDA a : DateOf(a.date) >= DateOf(now) - RetentionDays)

RECURSIVE MaxDate(_)
\* get_newest_article_datetime: the newest date in column A, None for no rows
MaxDate(rows) ==
  IF rows = << >> THEN NoTime
  ELSE LET m == MaxDate(Tail(rows))
       IN IF m = NoTime \/ Head(rows).date > m THEN Head(rows).date ELSE m

\* ------------------------------------------------------------------ state
VARIABLES
  clock,        \* real time (UTC), minutes
  tz,           \* UTC offset of the host's local time, minutes
  advances,     \* how often the clock moved
  runs,         \* how many executions of run_campaign were started
  lastTick,     \* when the 'campaign_checker' job fired last
  db,           \* campaigns table: id -> row
  created,      \* campaign ids in the order of created_at
  sheet,        \* spreadsheet of each campaign: the data rows below the header
  tickPc,       \* position of check_and_run_campaigns
  tickQueue,    \* campaigns_to_run still to be iterated
  run,          \* thread -> its execution of CampaignScheduler.run_campaign
  lastTickRun,  \* history: when a tick last started a run of the campaign
  lastOutcome,  \* history: how the run that returned last ended
  call,         \* the last call of a function of the AI and fetch layers, with its result
  scheduler,    \* the BackgroundScheduler of the CampaignScheduler
  tasks         \* AsyncCampaignManager.tasks: task id -> CampaignCreationTask

vars == <<tasks, scheduler, call, clock, tz, advances, runs, lastTick, db, created, sheet, tickPc, tickQueue,
          run, lastTickRun, lastOutcome>>

\* no row with this id was ever inserted
NoRow ==
  [status |-> "none", frequency |-> "daily", keywords |-> "ok", max_articles |-> 25,
   sheets |-> FALSE, last_check |-> NoTime, total_articles |-> 0,
   articles_today |-> 0, last_articles_date |-> NoTime]

\* the row is in the table
Exists(row) == row.status \in {"active", "paused"}

\* a thread that never entered run_campaign
IdleRun ==
  [pc |-> "idle", c |-> "none", keywords |-> "ok", max_articles |-> 25,
   sheets |-> FALSE, articles |-> << >>, saved |-> "none", written |-> << >>,
   new_total |-> 0, new_today |-> 0, existing |-> {}]

\* the campaign dict handed to run_campaign: the row as read, with its id
Snapshot(c, row) ==
  [c |-> c, keywords |-> row.keywords, max_articles |-> row.max_articles,
   sheets |-> row.sheets]

\* first statement of run_campaign(campaign)
StartRun(snap) ==
  [IdleRun EXCEPT !.pc = "fetch", !.c = snap.c, !.keywords = snap.keywords,
                  !.max_articles = snap.max_articles, !.sheets = snap.sheets]

NoCall == [op |-> "none"]

\* str(uuid.uuid4()) of create_campaign_async
TaskIds == {"k1", "k2"}

\* no task with this id was ever created
NoTask ==
  [status |-> "none", pc |-> 0, progress |-> 0, created_at |-> NoTime,
   completed_at |-> NoTime, error_message |-> "none", campaign_id |-> "none",
   result |-> "none",
   inputs |-> [campaign_name |-> "", keywords |-> << >>, frequency |-> "", user_id |-> ""]]

\* app.py, line 145: the module starts the campaign scheduler when it is loaded
Started ==
  [state |-> "running", jobs |-> <<"campaign_checker">>, pending |-> << >>, raised |-> "none"]

Init ==
  /\ clock = StartClock
  /\ tz \in TzOffsets
  /\ advances = 0
  /\ runs = 0
  /\ lastTick = NoTime
  /\ db = [c \in CampaignIds |-> NoRow]
  /\ created = << >>
  /\ sheet = [c \in CampaignIds |-> << >>]
  /\ tickPc = "idle"
  /\ tickQueue = << >>
  /\ run = [th \in Threads |-> IdleRun]
  /\ lastTickRun = [c \in CampaignIds |-> NoTime]
  /\ lastOutcome = "none"
  /\ call = NoCall
  /\ scheduler = Started
  /\ tasks = [k \in TaskIds |-> NoTask]

\* ------------------------------------------------------------------- time
Advance(d, limit) ==
  /\ advances < limit
  /\ clock' = clock + d
  /\ advances' = advances + 1
  /\ UNCHANGED <<tasks, scheduler, call, tz, runs, lastTick, db, created, sheet, tickPc, tickQueue, run,
                 lastTickRun, lastOutcome>>

\* ------------------------------------------------------- campaign manager
RECURSIVE Reverse(_)
Reverse(seq) == IF seq = << >> THEN << >> ELSE Reverse(Tail(seq)) \o <<Head(seq)>>

Range(seq) == {seq[i] : i \in DOMAIN seq}

\* get_campaigns_for_execution without the status = 'active' condition of its
\* SELECT
GetCampaignsForExecutionAnyStatus(rows, order, now) ==
  SelectSeq(Reverse(order), LAMBDA c : Exists(rows[c]) /\ IsDue(rows[c], now))

\* DatabaseCampaignManager.get_campaigns_for_execution: ids of the rows with
\* status 'active' that are due at `now`, newest created first
GetCampaignsForExecution(rows, order, now) ==
  SelectSeq(Reverse(order), LAMBDA c : rows[c].status = "active" /\ IsDue(rows[c], now))

\* str(uuid.uuid4()): the id of a new row was never used
IsFreshId(c) == db[c].status = "none"

\* DatabaseCampaignManager.create_campaign
CreateCampaign(f, kw, ma, sh) ==
  [NoRow EXCEPT !.status = "active", !.frequency = f, !.keywords = kw,
                !.max_articles = ma, !.sheets = sh]

\* DatabaseCampaignManager.pause_campaign (rowcount > 0)
PauseCampaign(c) ==
  /\ Exists(db[c])
  /\ db' = [db EXCEPT ![c].status = "paused"]
  /\ UNCHANGED <<tasks, scheduler, call, clock, tz, advances, runs, lastTick, created, sheet, tickPc,
                 tickQueue, run, lastTickRun, lastOutcome>>

\* DatabaseCampaignManager.resume_campaign (rowcount > 0)
ResumeCampaign(c) ==
  /\ Exists(db[c])
  /\ db' = [db EXCEPT ![c].status = "active"]
  /\ UNCHANGED <<tasks, scheduler, call, clock, tz, advances, runs, lastTick, created, sheet, tickPc,
                 tickQueue, run, lastTickRun, lastOutcome>>

\* DatabaseCampaignManager.delete_campaign (rowcount > 0)
DeleteCampaign(c) ==
  /\ Exists(db[c])
  /\ db' = [db EXCEPT ![c].status = "deleted"]
  /\ UNCHANGED <<tasks, scheduler, call, clock, tz, advances, runs, lastTick, created, sheet, tickPc,
                 tickQueue, run, lastTickRun, lastOutcome>>

\* -------------------------------------------------------------- scheduler
\* check_and_run_campaigns, line 47: the 'campaign_checker' job fires (at most
\* one instance at a time, TickInterval after the last firing) and reads the
\* campaigns to run
TickQuery ==
  /\ scheduler.state = "running"
  /\ "campaign_checker" \in Range(scheduler.jobs)
  /\ tickPc = "idle"
  /\ lastTick = NoTime \/ clock >= lastTick + TickInterval
  /\ LET q == GetCampaignsForExecution(db, created, Now(clock, tz))
     IN tickQueue' = [i \in 1..Len(q) |-> Snapshot(q[i], db[q[i]])]
  /\ tickPc' = "loop"
  /\ lastTick' = clock
  /\ UNCHANGED <<tasks, scheduler, call, clock, tz, advances, runs, db, created, sheet, run,
                 lastTickRun, lastOutcome>>

\* check_and_run_campaigns, lines 49-51: the next iteration of the for loop
\* calls run_campaign
TickDispatch(limit) ==
  /\ tickPc = "loop"
  /\ run["sched"].pc = "idle"
  /\ tickQueue # << >>
  /\ runs < limit
  /\ runs' = runs + 1
  /\ run' = [run EXCEPT !["sched"] = StartRun(Head(tickQueue))]
  /\ tickQueue' = Tail(tickQueue)
  /\ lastTickRun' = [lastTickRun EXCEPT ![Head(tickQueue).c] = clock]
  /\ UNCHANGED <<tasks, scheduler, call, clock, tz, advances, lastTick, db, created, sheet, tickPc,
                 lastOutcome>>

\* check_and_run_campaigns: the for loop is exhausted and the job returns
TickReturn ==
  /\ tickPc = "loop"
  /\ run["sched"].pc = "idle"
  /\ tickQueue = << >>
  /\ tickPc' = "idle"
  /\ UNCHANGED <<tasks, scheduler, call, clock, tz, advances, runs, lastTick, db, created, sheet,
                 tickQueue,
                 run, lastTickRun, lastOutcome>>

\* --------------------------------------------------------------- web layer
\* save_campaign (app.py 723-764): create the campaign from the validated
\* form, then run it once in the request thread
SaveCampaign(c, f, ma, sh, limit) ==
  /\ run["web"].pc = "idle"
  /\ IsFreshId(c)
  /\ runs < limit
  /\ runs' = runs + 1
  /\ db' = [db EXCEPT ![c] = CreateCampaign(f, "ok", ma, sh)]
  /\ created' = Append(created, c)
  /\ run' = [run EXCEPT !["web"] = StartRun(Snapshot(c, db'[c]))]
  /\ UNCHANGED <<tasks, scheduler, call, clock, tz, advances, lastTick, sheet, tickPc, tickQueue,
                 lastTickRun, lastOutcome>>

\* DatabaseCampaignManager.create_campaign called without the form's
\* validation: the keywords may be empty
InsertCampaign(c, f, kw) ==
  /\ IsFreshId(c)
  /\ db' = [db EXCEPT ![c] = CreateCampaign(f, kw, 25, FALSE)]
  /\ created' = Append(created, c)
  /\ UNCHANGED <<tasks, scheduler, call, clock, tz, advances, runs, lastTick, sheet, tickPc,
                 tickQueue, run,
                 lastTickRun, lastOutcome>>

\* run_campaign(campaign_id, user_id) of scheduler.py 212-231
RunCampaignById(c, limit) ==
  /\ run["web"].pc = "idle"
  /\ runs < limit
  /\ runs' = runs + 1
  /\ IF Exists(db[c])
     THEN /\ run' = [run EXCEPT !["web"] = StartRun(Snapshot(c, db[c]))]
          /\ UNCHANGED lastOutcome
     ELSE /\ lastOutcome' = "not_found"
          /\ UNCHANGED run
  /\ UNCHANGED <<tasks, scheduler, call, clock, tz, advances, lastTick, db, created, sheet, tickPc,
                 tickQueue, lastTickRun>>

\* ---------------------------------------------- CampaignScheduler.run_campaign
\* the fetch step with an except clause that records the failed check in
\* last_check
FetchTouchingLastCheck(th, feeds, tweetFeeds) ==
  /\ run[th].pc = "fetch"
  /\ IF run[th].keywords = "empty"
     THEN /\ run' = [run EXCEPT ![th] = IdleRun]
          /\ lastOutcome' = "aborted"
          /\ db' = [db EXCEPT ![run[th].c].last_check = clock]
     ELSE /\ \E feed \in feeds, tweets \in tweetFeeds, expanded \in BOOLEAN :
               LET articles == FetchArticlesMultiSource(feed, tweets, run[th].max_articles,
                                                        expanded, Now(clock, tz))
               IN IF articles = << >>
                  THEN /\ run' = [run EXCEPT ![th] = IdleRun]
                       /\ lastOutcome' = "empty"
                  ELSE /\ run' = [run EXCEPT ![th].pc = "save", ![th].articles = articles]
                       /\ UNCHANGED lastOutcome
          /\ UNCHANGED db
  /\ UNCHANGED <<tasks, scheduler, call, clock, tz, advances, runs, lastTick, created, sheet, tickPc,
                 tickQueue, lastTickRun>>

\* lines 62-74 and 122-127: the fetch; an empty query raises and the except
\* clause ends the run, an empty result ends it without touching the stats
Fetch(th, feeds, tweetFeeds) ==
  /\ run[th].pc = "fetch"
  /\ IF run[th].keywords = "empty"
     THEN /\ run' = [run EXCEPT ![th] = IdleRun]
          /\ lastOutcome' = "aborted"
     ELSE \E feed \in feeds, tweets \in tweetFeeds, expanded \in BOOLEAN :
            LET articles == FetchArticlesMultiSource(feed, tweets, run[th].max_articles,
                                                     expanded, Now(clock, tz))
            IN IF articles = << >>
               THEN /\ run' = [run EXCEPT ![th] = IdleRun]
                    /\ lastOutcome' = "empty"
               ELSE /\ run' = [run EXCEPT ![th].pc = "save", ![th].articles = articles]
                    /\ UNCHANGED lastOutcome
  /\ UNCHANGED <<tasks, scheduler, call, clock, tz, advances, runs, lastTick, db, created, sheet, tickPc,
                 tickQueue, lastTickRun>>

\* _save_articles_for_user: the rows it writes below the last row
SaveArticlesForUser(articles, now) == RecentArticles(articles, now)

\* lines 78-109: the integrations loop.  The sink is used when the campaign
\* has the google_sheets integration and a spreadsheet_id; the user may not
\* be connected ("skipped"), and the Sheets API may fail ("failed")
Save(th) ==
  /\ run[th].pc = "save"
  /\ IF run[th].sheets
     THEN \E result \in {"skipped", "failed", "saved"} :
            LET rows == IF result = "saved"
                        THEN SaveArticlesForUser(run[th].articles, Now(clock, tz))
                        ELSE << >>
            IN /\ Len(sheet[run[th].c]) + Len(rows) <= MaxRows
               /\ sheet' = [sheet EXCEPT ![run[th].c] = @ \o rows]
               /\ run' = [run EXCEPT ![th].pc = "stats", ![th].saved = result,
                                     ![th].written = rows]
     ELSE /\ run' = [run EXCEPT ![th].pc = "stats"]
          /\ UNCHANGED sheet
  /\ UNCHANGED <<tasks, scheduler, call, clock, tz, advances, runs, lastTick, db, created, tickPc,
                 tickQueue,
                 lastTickRun, lastOutcome>>

\* update_campaign_stats storing the count of this run as the total
NewTotalReplacing(row, articles_count) == articles_count

\* update_campaign_stats, line 327
NewTotal(row, articles_count) == row.total_articles + articles_count

\* update_campaign_stats, lines 329-338
NewArticlesToday(row, articles_count, now) ==
  IF row.last_articles_date # NoTime /\ DateOf(row.last_articles_date) = DateOf(now)
  THEN row.articles_today + articles_count
  ELSE articles_count

\* update_campaign_stats, lines 317-338: the SELECT and the new counters
StatsRead(th) ==
  /\ run[th].pc = "stats"
  /\ IF Exists(db[run[th].c])
     THEN run' = [run EXCEPT
                    ![th].pc = "stats_write",
                    ![th].new_total = NewTotal(db[run[th].c], Len(run[th].articles)),
                    ![th].new_today = NewArticlesToday(db[run[th].c],
                                        Len(run[th].articles), Now(clock, tz))]
     ELSE run' = [run EXCEPT ![th] = IdleRun]
  /\ lastOutcome' = IF Exists(db[run[th].c]) THEN lastOutcome ELSE "completed"
  /\ UNCHANGED <<tasks, scheduler, call, clock, tz, advances, runs, lastTick, db, created, sheet, tickPc,
                 tickQueue, lastTickRun>>

\* the row after the UPDATE of update_campaign_stats: CURRENT_TIMESTAMP is
\* SQLite's UTC time
StatsRow(row, new_total, new_articles_today, utc) ==
  [row EXCEPT !.total_articles = new_total, !.articles_today = new_articles_today,
              !.last_check = utc, !.last_articles_date = utc]

\* update_campaign_stats, lines 340-348: the UPDATE
StatsWrite(th) ==
  /\ run[th].pc = "stats_write"
  /\ IF Exists(db[run[th].c])
     THEN /\ db' = [db EXCEPT ![run[th].c] =
                      StatsRow(@, run[th].new_total, run[th].new_today, clock)]
     ELSE UNCHANGED db
  /\ run' = [run EXCEPT ![th] = IdleRun]
  /\ lastOutcome' = "completed"
  /\ UNCHANGED <<tasks, scheduler, call, clock, tz, advances, runs, lastTick, created, sheet, tickPc,
                 tickQueue, lastTickRun>>

\* ------------------------------------- GoogleSheetsManager.save_articles_to_spreadsheet
\* A string as the save handles it: its text in lower case without surrounding
\* whitespace (base), and how the given string differs from that: letters in
\* upper case, surrounding whitespace, an apostrophe inside, an
\* <a href="..."> wrapper around.
Str(b, u, p, q, h) == [base |-> b, upper |-> u, pad |-> p, quote |-> q, href |-> h]

\* a plain string
Plain(b) == Str(b, FALSE, FALSE, FALSE, FALSE)

\* str.strip()
Strip(s) == [s EXCEPT !.pad = FALSE]

\* str.lower(), which the save never calls
Lower(s) == [s EXCEPT !.upper = FALSE]

\* re.search(r'href="([^"]*)"', url): group(1) on a match, the url otherwise
ExtractHref(s) == [s EXCEPT !.href = FALSE]

\* url.replace('"', '').replace("'", "")
RemoveQuotes(s) == [s EXCEPT !.quote = FALSE]

\* truth value of a str: it is not ''
Truthy(s) == s.base # "" \/ s.pad \/ s.quote \/ s.href

\* an article dict of the request: 'titre', 'url', 'date'
Article(t, u, d) == [title |-> t, url |-> u, date |-> d]

aPlain == Article(Plain("t"), Plain("u"), StartClock)
aCase == Article(Str("t", TRUE, FALSE, FALSE, FALSE), Str("u", TRUE, FALSE, FALSE, FALSE),
                 StartClock - 10)
aPad == Article(Str("t", FALSE, TRUE, FALSE, FALSE), Str("u", FALSE, TRUE, FALSE, FALSE),
                StartClock - 20)
aQuote == Article(Plain("t"), Str("u", FALSE, FALSE, TRUE, FALSE), StartClock - 30)
aHref == Article(Plain("t"), Str("u", FALSE, FALSE, FALSE, TRUE), StartClock - 40)
aOther == Article(Plain("t2"), Plain("u2"), StartClock - 50)
aUntitled == Article(Plain(""), Plain("u3"), StartClock)
aStale == Article(Plain("t4"), Plain("u4"), StartClock - 3 * Day)

\* the articles a request may carry
SheetArticles == {aPlain, aCase, aPad, aQuote, aHref, aOther, aUntitled, aStale}

\* the 'articles' lists of the requests
Batches == {<<a>> : a \in SheetArticles} \cup {<<a, b>> : a, b \in SheetArticles}

\* lines 268-278: identifier = f"{title}|{url}" of an article of the batch
Identifier(article) ==
  <<Strip(article.title), Strip(ExtractHref(Strip(article.url)))>>

\* lines 246-259: the identifier of a row read back from the sheet (no row
\* holds a HYPERLINK formula: the save writes none)
RowIdentifier(row) == <<Strip(row.title), Strip(row.url)>>

\* lines 236-264: existing_articles after the read of A:F
ExistingArticles(rows) ==
  {RowIdentifier(rows[i]) : i \in {j \in DOMAIN rows : Truthy(rows[j].title) /\ Truthy(rows[j].url)}}

RECURSIVE UniqueArticles(_, _)
\* lines 267-284: the loop that keeps the articles whose identifier is new
UniqueArticles(articles, existing_articles) ==
  IF articles = << >> THEN << >>
  ELSE LET article == Head(articles)
           identifier == Identifier(article)
       IN IF identifier \notin existing_articles
               /\ Truthy(identifier[1]) /\ Truthy(identifier[2])
          THEN <<article>> \o UniqueArticles(Tail(articles),
                                             existing_articles \cup {identifier})
          ELSE UniqueArticles(Tail(articles), existing_articles)

RECURSIVE InsertAsc(_, _)
\* insert x behind every element whose date is <= x.date (stable, oldest first)
InsertAsc(x, seq) ==
  IF seq = << >> THEN <<x>>
  ELSE IF Head(seq).date <= x.date THEN <<Head(seq)>> \o InsertAsc(x, Tail(seq))
  ELSE <<x>> \o seq

RECURSIVE SortAsc(_)
\* unique_articles.sort(key=date, reverse=False)
SortAsc(seq) ==
  IF seq = << >> THEN << >>
  ELSE InsertAsc(seq[Len(seq)], SortAsc(SubSeq(seq, 1, Len(seq) - 1)))

\* lines 297-316: the row written for an article
SheetRow(article) ==
  [title |-> article.title, url |-> RemoveQuotes(ExtractHref(article.url)),
   date |-> article.date]

\* lines 267-316: the rows the save appends for the recent articles, given
\* the identifiers it read
NewRows(filtered_articles, existing_articles) ==
  LET unique_articles == SortAsc(UniqueArticles(filtered_articles, existing_articles))
  IN [i \in 1..Len(unique_articles) |-> SheetRow(unique_articles[i])]

\* save_search_results / save_campaign_results (app.py): the request hands
\* its articles to save_articles_to_spreadsheet
SaveSearchResults(c, articles, limit) ==
  /\ run["web"].pc = "idle"
  /\ runs < limit
  /\ runs' = runs + 1
  /\ run' = [run EXCEPT !["web"] = [IdleRun EXCEPT !.pc = "sheet_save", !.c = c,
                                                   !.articles = articles]]
  /\ UNCHANGED <<tasks, scheduler, call, clock, tz, advances, lastTick, db, created, sheet, tickPc,
                 tickQueue,
                 lastTickRun, lastOutcome>>

\* the read of the existing rows with a failure that ends the save
ReadExistingArticlesOrFail(th) ==
  /\ run[th].pc = "sheet_save"
  /\ \E service \in BOOLEAN, read_ok \in BOOLEAN :
       LET filtered_articles == RecentArticles(run[th].articles, Now(clock, tz))
       IN IF ~service \/ filtered_articles = << >> \/ ~read_ok
          THEN /\ run' = [run EXCEPT ![th] = IdleRun]
               /\ lastOutcome' = IF ~service THEN "no_service"
                                 ELSE IF filtered_articles = << >> THEN "no_recent"
                                 ELSE "http_error"
          ELSE /\ run' = [run EXCEPT ![th].pc = "sheet_append",
                                     ![th].articles = filtered_articles,
                                     ![th].saved = "read",
                                     ![th].existing = ExistingArticles(sheet[run[th].c])]
               /\ UNCHANGED lastOutcome
  /\ UNCHANGED <<tasks, scheduler, call, clock, tz, advances, runs, lastTick, db, created, sheet, tickPc,
                 tickQueue, lastTickRun>>

\* save_articles_to_spreadsheet, lines 203-264: no service returns False,
\* no recent article returns True; else the existing rows are read, and a
\* failed read leaves existing_articles empty
ReadExistingArticles(th) ==
  /\ run[th].pc = "sheet_save"
  /\ \E service \in BOOLEAN, read_ok \in BOOLEAN :
       LET filtered_articles == RecentArticles(run[th].articles, Now(clock, tz))
       IN IF ~service \/ filtered_articles = << >>
          THEN /\ run' = [run EXCEPT ![th] = IdleRun]
               /\ lastOutcome' = IF ~service THEN "no_service" ELSE "no_recent"
          ELSE /\ run' = [run EXCEPT ![th].pc = "sheet_append",
                                     ![th].articles = filtered_articles,
                                     ![th].saved = IF read_ok THEN "read" ELSE "unread",
                                     ![th].existing =
                                       IF read_ok THEN ExistingArticles(sheet[run[th].c])
                                       ELSE {}]
               /\ UNCHANGED lastOutcome
  /\ UNCHANGED <<tasks, scheduler, call, clock, tz, advances, runs, lastTick, db, created, sheet, tickPc,
                 tickQueue, lastTickRun>>

\* save_articles_to_spreadsheet, lines 266-401: the duplicates are dropped
\* and the rest is appended; the append or the formatting request that
\* follows it may fail with an HttpError
AppendArticles(th) ==
  /\ run[th].pc = "sheet_append"
  /\ \E failing \in {"none", "append", "format"} :
       LET c == run[th].c
           values == NewRows(run[th].articles, run[th].existing)
       IN IF values = << >>
          THEN /\ lastOutcome' = "no_new"
               /\ UNCHANGED sheet
          ELSE IF failing = "append"
          THEN /\ lastOutcome' = "http_error"
               /\ UNCHANGED sheet
          ELSE /\ Len(sheet[c]) + Len(values) <= MaxRows
               /\ sheet' = [sheet EXCEPT ![c] = @ \o values]
               /\ lastOutcome' = IF failing = "format" THEN "http_error" ELSE "saved"
  /\ run' = [run EXCEPT ![th] = IdleRun]
  /\ UNCHANGED <<tasks, scheduler, call, clock, tz, advances, runs, lastTick, db, created, tickPc,
                 tickQueue,
                 lastTickRun>>

\* ------------------------------------------------------------- AI scoring
\* A text is the sequence of its lower-cased words; a keyword is a phrase (a
\* sequence of words); `keyword in text` is the occurrence of the phrase.
Contains(text, phrase) ==
  \E i \in 0..(Len(text) - Len(phrase)) : SubSeq(text, i + 1, i + Len(phrase)) = phrase

Min(a, b) == IF a <= b THEN a ELSE b

Max(a, b) == IF a >= b THEN a ELSE b

Texts == {<< >>, <<"ai">>, <<"ai", "news">>, <<"news", "ai">>, <<"open">>}

\* the comma-separated keywords of a campaign, split and stripped
KeywordLists ==
  { << <<"ai">> >>, << <<"ai">>, <<"news">> >>, << <<"ai", "news">> >>,
    << <<"ai">>, <<"open", "data">> >> }

ScoredArticle(t, c) == [titre |-> t, resume |-> c, source |-> <<"rss">>]

ScoredArticles == {ScoredArticle(t, c) : t \in Texts, c \in Texts}

AiModels == {"openai-gpt3.5", "huggingface-bert", "ollama-llama2", "anthropic-claude", "none"}

\* What the provider does with one request: answers a number, answers a text
\* without a number, answers a status other than 200, or the call raises; the
\* local HuggingFace classifier labels the title or raises.
Answered(n) == [kind |-> "ok", n |-> n]

Failed(k) == [kind |-> k, n |-> 0]

RemoteAnswers ==
  {Answered(0), Answered(85), Answered(250), Failed("no_number"), Failed("http_error"),
   Failed("exception")}

ClassifierAnswers == {Failed("positive"), Failed("negative"), Failed("exception")}

\* the answers of the provider to successive requests of one call
TransientTwice == <<Failed("exception"), Failed("exception"), Answered(85)>>

AnswersOf(provider) ==
  CASE provider = "huggingface" -> {<<a>> : a \in ClassifierAnswers}
    [] provider = "openai" -> {<<a>> : a \in RemoteAnswers \ {Failed("http_error")}}
                                \cup {TransientTwice}
    [] provider = "basic" -> {<< >>}
    [] OTHER -> {<<a>> : a \in RemoteAnswers} \cup {TransientTwice}

\* _init_provider: the one provider of the enhancer, 'basic' when the model is
\* unknown or the provider cannot be set up
InitProvider(model, usable) ==
  CASE ~usable -> "basic"
    [] model = "openai-gpt3.5" -> "openai"
    [] model = "huggingface-bert" -> "huggingface"
    [] model = "ollama-llama2" -> "ollama"
    [] model = "anthropic-claude" -> "anthropic"
    [] OTHER -> "basic"

Returned(score, requests) == [raised |-> FALSE, score |-> score, requests |-> requests]

Clamp(score) == Max(0, Min(100, score))

CountMatching(S, text) == Cardinality({w \in S : Contains(text, <<w>>)})

WordsOf(keyword) == {keyword[i] : i \in DOMAIN keyword}

\* the points one keyword adds in _score_basic
KeywordPoints(keyword, title, content) ==
  LET text == title \o content
      direct == IF Contains(title, keyword) THEN 25
                ELSE IF Contains(content, keyword) THEN 15 ELSE 0
      partial == IF Len(keyword) > 1
                 THEN (CountMatching(WordsOf(keyword), text) * 10) \div Len(keyword)
                 ELSE 0
  IN direct + partial

RECURSIVE SumPoints(_, _, _)
SumPoints(keywords_list, title, content) ==
  IF keywords_list = << >> THEN 0
  ELSE KeywordPoints(Head(keywords_list), title, content)
         + SumPoints(Tail(keywords_list), title, content)

ScoreBasic(article, keywords_list) ==
  LET score == SumPoints(keywords_list, article.titre, article.resume)
      total_possible == Len(keywords_list) * 25
      normalized_score ==
        IF total_possible > 0 THEN Min(100, (score * 100) \div total_possible) ELSE 20
  IN Max(20, normalized_score)

MatchCount(keywords_list, text) ==
  Cardinality({i \in DOMAIN keywords_list : Contains(text, keywords_list[i])})

ScoreWithOpenai(article, keywords_list, answer) ==
  CASE answer.kind = "ok" -> Returned(Clamp(answer.n), 1)
    [] answer.kind = "no_number" -> Returned(50, 1)
    [] OTHER -> Returned(ScoreBasic(article, keywords_list), 1)

ScoreWithHuggingface(article, keywords_list, answer) ==
  LET matches == MatchCount(keywords_list, article.titre)
      sentiment_boost == IF answer.kind = "positive" THEN 20 ELSE 10
      keyword_score ==
        IF Len(keywords_list) > 0 THEN (matches * 80) \div Len(keywords_list) ELSE 0
  IN Returned(Min(100, keyword_score + sentiment_boost), 1)

\* _score_with_ollama and _score_with_anthropic: one request, the same handling
ScoreWithRequest(article, keywords_list, answer) ==
  CASE answer.kind = "ok" -> Returned(Clamp(answer.n), 1)
    [] OTHER -> Returned(ScoreBasic(article, keywords_list), 1)

MultiScoreArticleRelevance(provider, article, keywords_list, answers) ==
  CASE provider = "openai" -> ScoreWithOpenai(article, keywords_list, Head(answers))
    [] provider = "huggingface" -> ScoreWithHuggingface(article, keywords_list, Head(answers))
    [] provider \in {"ollama", "anthropic"} ->
         ScoreWithRequest(article, keywords_list, Head(answers))
    [] OTHER -> Returned(ScoreBasic(article, keywords_list), 0)

SimpleRelevanceScore(text, keywords_list) ==
  LET matches == MatchCount(keywords_list, text)
      total_keywords == Len(keywords_list)
      score == IF total_keywords > 0 THEN (matches * 100) \div total_keywords ELSE 0
  IN Min(100, Max(20, score))

ArticleText(article) ==
  <<"titre">> \o article.titre \o <<"contenu">> \o article.resume \o <<"source">>
    \o article.source

NewsScoreArticleRelevance(provider, article, keywords_list, answers) ==
  IF provider = "basic"
  THEN Returned(SimpleRelevanceScore(ArticleText(article), keywords_list), 0)
  ELSE IF Head(answers).kind = "ok"
       THEN Returned(Clamp(Head(answers).n), 1)
       ELSE Returned(SimpleRelevanceScore(article.titre \o article.resume, keywords_list), 1)

ScoreArticleRelevance(enhancer, provider, article, keywords_list, answers) ==
  IF enhancer = "multi"
  THEN MultiScoreArticleRelevance(provider, article, keywords_list, answers)
  ELSE NewsScoreArticleRelevance(provider, article, keywords_list, answers)

\* one call of score_article_relevance on an enhancer built for `model`
Score(enhancer, model, usable) ==
  /\ call = NoCall
  /\ enhancer = "news" => model = "openai-gpt3.5"
  /\ LET provider == InitProvider(model, usable)
     IN \E article \in ScoredArticles, keywords_list \in KeywordLists,
           answers \in AnswersOf(provider) :
          call' = [op |-> "score", enhancer |-> enhancer, provider |-> provider,
                   article |-> article, keywords |-> keywords_list, answers |-> answers,
                   result |-> ScoreArticleRelevance(enhancer, provider, article,
                                                    keywords_list, answers)]
  /\ UNCHANGED <<tasks, scheduler, clock, tz, advances, runs, lastTick, db, created, sheet, tickPc,
                 tickQueue, run, lastTickRun, lastOutcome>>

\* ------------------------------------------------------ keyword expansion
MaxRetries == 3

BaseDelay == 1

MinRequestInterval == 20

RequestTimeout == 30

\* What the provider does with one expansion request: 200 with the JSON of the
\* words, 200 with a text that is no JSON, 429 insufficient_quota, 429 rate
\* limit, 401, a 5xx status, another 4xx status, a timeout, another exception.
ExpandAnswers ==
  {"ok", "unparseable", "quota", "rate_limit", "unauthorized", "server_error",
   "client_error", "timeout", "exception"}

\* seconds since the last request of the expander when a call begins
\* (time.time() - self.last_request_time; last_request_time starts at 0)
SinceLastRequest == {0, 5, 20, 60}

\* the least time a request takes: a timeout takes the whole timeout
Duration(answer) == IF answer = "timeout" THEN RequestTimeout ELSE 0

\* the answers to the successive requests of one call: the retry loop of
\* AIKeywordExpander asks up to MaxRetries times, every other path once; the
\* OpenAI client of MultiProviderAIEnhancer raises on every failure
ExpandAnswersOf(enhancer, model, usable) ==
  CASE enhancer = "expander" /\ model = "openai-gpt3.5" /\ usable ->
         [1..MaxRetries -> ExpandAnswers]
    [] enhancer = "expander" /\ model = "anthropic-claude" /\ usable ->
         {<<a>> : a \in ExpandAnswers}
    [] enhancer = "expander" /\ model = "ollama-llama2" -> {<<a>> : a \in ExpandAnswers}
    [] enhancer = "multi" /\ model = "openai-gpt3.5" /\ usable ->
         {<<"ok">>, <<"timeout">>, <<"exception">>}
    [] OTHER -> {<< >>}

\* only the OpenAI path of the expander looks at the time of the last request
SinceLastOf(enhancer, model, usable) ==
  IF enhancer = "expander" /\ model = "openai-gpt3.5" /\ usable
  THEN SinceLastRequest ELSE {60}

\* the words the provider suggests
AiTerms == {"apprentissage", "learning"}

ExpandKeywordSets == {{"ia"}, {"sport"}, {"meteo"}}

SemanticPatterns(word) ==
  CASE word = "ia" -> {"intelligence artificielle", "ai", "machine learning", "deep learning",
                       "algorithme", "automatisation"}
    [] word = "sport" -> {"football", "basketball", "tennis", "jeux", "competition", "equipe"}
    [] OTHER -> {}

\* the words next to the keywords in at least two of the articles
RelevantWordLists == {<< >>, <<"modele">>}

RECURSIVE Pow(_, _)
Pow(b, e) == IF e = 0 THEN 1 ELSE b * Pow(b, e - 1)

\* the return value with the trace of the call: the requests sent, the wait
\* before the first one and the sleep before each retry, in seconds
Expanded(terms, requests, waited, slept) ==
  [raised |-> FALSE, terms |-> terms, requests |-> requests, waited |-> waited,
   slept |-> slept]

\* _expand_semantic_basic: three of the pattern words of the keywords, in the
\* iteration order of a set of strings, which differs from process to process,
\* then up to three context words, five words at most
ExpandSemanticBasic(keywords, relevant_words) ==
  LET suggested_keywords == UNION {SemanticPatterns(w) : w \in keywords}
      k == Min(3, Cardinality(suggested_keywords))
  IN {S \cup Range(Take(relevant_words, Min(3, 5 - k))) :
        S \in {T \in SUBSET suggested_keywords : Cardinality(T) = k}}

\* MultiProviderAIEnhancer.expand_keywords
MultiExpandKeywords(provider, keywords, relevant_words, answers) ==
  IF provider = "openai" /\ answers[1] = "ok"
  THEN {Expanded(AiTerms, 1, 0, << >>)}
  ELSE {Expanded(terms, IF provider = "openai" THEN 1 ELSE 0, 0, << >>) :
          terms \in ExpandSemanticBasic(keywords, relevant_words)}

\* the retry loop of AIKeywordExpander._expand_with_openai from `attempt` on
\* the loop with no failure set apart: 401 and the quota error are retried too
RECURSIVE ExpandWithOpenaiFromRetryingAll(_, _, _, _)
ExpandWithOpenaiFromRetryingAll(answers, attempt, waited, slept) ==
  IF attempt >= MaxRetries THEN Expanded({}, attempt, waited, slept)
  ELSE LET answer == answers[attempt + 1]
           delay == IF answer = "rate_limit" THEN BaseDelay * Pow(3, attempt) + 30
                    ELSE BaseDelay * Pow(2, attempt)
       IN CASE answer = "ok" -> Expanded(AiTerms, attempt + 1, waited, slept)
            [] answer = "unparseable" -> Expanded({}, attempt + 1, waited, slept)
            [] OTHER ->
                 IF attempt < MaxRetries - 1
                 THEN ExpandWithOpenaiFromRetryingAll(answers, attempt + 1, waited,
                                                      Append(slept, delay))
                 ELSE Expanded({}, attempt + 1, waited, slept)

RECURSIVE ExpandWithOpenaiFrom(_, _, _, _)
ExpandWithOpenaiFrom(answers, attempt, waited, slept) ==
  IF attempt >= MaxRetries THEN Expanded({}, attempt, waited, slept)
  ELSE LET answer == answers[attempt + 1]
           delay == IF answer = "rate_limit" THEN BaseDelay * Pow(3, attempt) + 30
                    ELSE BaseDelay * Pow(2, attempt)
       IN CASE answer = "ok" -> Expanded(AiTerms, attempt + 1, waited, slept)
            [] answer \in {"unparseable", "quota", "unauthorized"} ->
                 Expanded({}, attempt + 1, waited, slept)
            [] OTHER ->
                 IF attempt < MaxRetries - 1
                 THEN ExpandWithOpenaiFrom(answers, attempt + 1, waited, Append(slept, delay))
                 ELSE Expanded({}, attempt + 1, waited, slept)

\* lines 63-73: no key, no request; otherwise sleep until min_request_interval
\* has passed since the last request, then enter the retry loop
ExpandWithOpenai(has_key, since_last, answers) ==
  IF ~has_key THEN Expanded({}, 0, 0, << >>)
  ELSE LET wait_time == IF since_last < MinRequestInterval
                        THEN MinRequestInterval - since_last ELSE 0
       IN ExpandWithOpenaiFrom(answers, 0, wait_time, << >>)

\* _expand_with_anthropic and _expand_with_ollama: one request
ExpandWithRequest(has_key, answers) ==
  IF ~has_key THEN Expanded({}, 0, 0, << >>)
  ELSE Expanded(IF answers[1] = "ok" THEN AiTerms ELSE {}, 1, 0, << >>)

\* AIKeywordExpander.expand_keywords
ExpanderExpandKeywords(model, has_key, since_last, answers) ==
  CASE model = "openai-gpt3.5" -> ExpandWithOpenai(has_key, since_last, answers)
    [] model = "anthropic-claude" -> ExpandWithRequest(has_key, answers)
    [] model = "ollama-llama2" -> ExpandWithRequest(TRUE, answers)
    [] OTHER -> Expanded({}, 0, 0, << >>)

\* one call of expand_keywords on an enhancer or expander built for `model`
Expand(enhancer, model, usable) ==
  /\ call = NoCall
  /\ \E keywords \in ExpandKeywordSets, relevant_words \in RelevantWordLists,
        answers \in ExpandAnswersOf(enhancer, model, usable),
        since_last \in SinceLastOf(enhancer, model, usable) :
       \E result \in IF enhancer = "multi"
                     THEN MultiExpandKeywords(InitProvider(model, usable), keywords,
                                              relevant_words, answers)
                     ELSE {ExpanderExpandKeywords(model, usable, since_last, answers)} :
         call' = [op |-> "expand", enhancer |-> enhancer, model |-> model,
                  usable |-> usable, keywords |-> keywords,
                  relevant_words |-> relevant_words, answers |-> answers,
                  since_last |-> since_last, result |-> result]
  /\ UNCHANGED <<tasks, scheduler, clock, tz, advances, runs, lastTick, db, created, sheet, tickPc,
                 tickQueue, run, lastTickRun, lastOutcome>>

\* ------------------------------------------- fetch_articles_multi_source
\* What a source does with the query: it hands back entries or it raises
\* (fetch_articles_rss raises ValueError on an empty query and passes on what
\* feedparser or an entry without link raises; tweepy raises on any API error).
Delivers(items) == [raises |-> FALSE, items |-> items]

Breaks == [raises |-> TRUE, items |-> << >>]

RssOutcomes == {Delivers(feed) : feed \in RssFeeds} \cup {Breaks}

SocialOutcomes == {Delivers(tweets) : tweets \in TweetFeeds} \cup {Breaks}

\* expand_keywords gives terms, gives none, or the expansion code raises
ExpansionOutcomes == {"terms", "none", "raises"}

FetchReturned(articles) == [raised |-> FALSE, articles |-> articles]

FetchRaised == [raised |-> TRUE, articles |-> << >>]

\* lines 116-163: the try of fetch_twitter_articles turns any error into []
SocialArticles(social) == IF social.raises THEN << >> ELSE social.items

\* the expansion outside the try: what it raises leaves the function
FetchArticlesMultiSourceCallUnguarded(rss, social, expansion, max_items, now) ==
  IF rss.raises \/ expansion = "raises" THEN FetchRaised
  ELSE FetchReturned(FetchArticlesMultiSource(rss.items, SocialArticles(social), max_items,
                                              expansion = "terms", now))

\* fetch_articles_multi_source with its sources and the expansion: line 293
\* calls fetch_articles_rss outside any try, lines 307-329 wrap the expansion
FetchArticlesMultiSourceCall(rss, social, expansion, max_items, now) ==
  IF rss.raises THEN FetchRaised
  ELSE FetchReturned(FetchArticlesMultiSource(rss.items, SocialArticles(social), max_items,
                                              expansion = "terms", now))

\* the steps of fetch_articles_multi_source in the order they execute: line 293
\* queries the RSS source, line 296 the social source, and the expansion of
\* lines 304-329 runs afterwards, when five or more articles were collected
FetchSteps(rss, social, expansion, max_items) ==
  IF rss.raises THEN <<"rss">>
  ELSE LET all_articles == FetchArticlesRss(rss.items, max_items)
                             \o FetchTwitterArticles(SocialArticles(social))
       IN <<"rss", "social">>
            \o (IF Len(all_articles) >= SuggestionThreshold THEN <<"expand">> ELSE << >>)
            \o <<"return">>

\* one call of fetch_articles_multi_source
FetchCall ==
  /\ call = NoCall
  /\ \E rss \in RssOutcomes, social \in SocialOutcomes, expansion \in ExpansionOutcomes,
        max_items \in MaxArticlesChoices :
       call' = [op |-> "fetch", rss |-> rss, social |-> social, expansion |-> expansion,
                max_items |-> max_items,
                steps |-> FetchSteps(rss, social, expansion, max_items),
                result |-> FetchArticlesMultiSourceCall(rss, social, expansion, max_items,
                                                        Now(clock, tz))]
  /\ UNCHANGED <<tasks, scheduler, clock, tz, advances, runs, lastTick, db, created, sheet, tickPc,
                 tickQueue, run, lastTickRun, lastOutcome>>

\* the caller is done with the result
ForgetCall ==
  /\ call.op # "none"
  /\ call' = NoCall
  /\ UNCHANGED <<tasks, scheduler, clock, tz, advances, runs, lastTick, db, created, sheet, tickPc,
                 tickQueue, run, lastTickRun, lastOutcome>>

\* ------------------------------------------------- scheduler start and stop
\* BackgroundScheduler.add_job(id=..., replace_existing=True) on a job store
AddJob(jobs, id) == IF id \in Range(jobs) THEN jobs ELSE Append(jobs, id)

RECURSIVE AddJobs(_, _)
AddJobs(jobs, pending) ==
  IF pending = << >> THEN jobs ELSE AddJobs(AddJob(jobs, Head(pending)), Tail(pending))

\* CampaignScheduler.start: add_job goes to the pending jobs of a stopped
\* scheduler and to the job store of a running one; BackgroundScheduler.start
\* raises SchedulerAlreadyRunningError unless the scheduler is stopped
Start ==
  /\ IF scheduler.state = "stopped"
     THEN scheduler' = [state |-> "running",
                        jobs |-> AddJobs(scheduler.jobs,
                                         Append(scheduler.pending, "campaign_checker")),
                        pending |-> << >>, raised |-> "none"]
     ELSE scheduler' = [scheduler EXCEPT
                          !.jobs = AddJob(@, "campaign_checker"),
                          !.raised = "SchedulerAlreadyRunningError"]
  /\ UNCHANGED <<tasks, call, clock, tz, advances, runs, lastTick, db, created, sheet, tickPc,
                 tickQueue, run, lastTickRun, lastOutcome>>

\* CampaignScheduler.stop: BackgroundScheduler.shutdown(wait=True) raises
\* SchedulerNotRunningError on a stopped scheduler; on a running one it returns
\* once the executing job is through, and the job store may drop its jobs
Stop ==
  /\ tickPc = "idle"
  /\ IF scheduler.state = "stopped"
     THEN scheduler' = [scheduler EXCEPT !.raised = "SchedulerNotRunningError"]
     ELSE \E kept \in {scheduler.jobs, << >>} :
            scheduler' = [scheduler EXCEPT !.state = "stopped", !.jobs = kept,
                                           !.raised = "none"]
  /\ UNCHANGED <<tasks, call, clock, tz, advances, runs, lastTick, db, created, sheet, tickPc,
                 tickQueue, run, lastTickRun, lastOutcome>>

\* ------------------------------------------------- AsyncCampaignManager
ValidInputs ==
  [campaign_name |-> "n", keywords |-> <<"ia">>, frequency |-> "daily", user_id |-> "u1"]

\* the arguments of create_campaign_async: nothing validates them before the task exists
TaskInputs ==
  {ValidInputs,
   [ValidInputs EXCEPT !.campaign_name = ""],
   [ValidInputs EXCEPT !.campaign_name = " "],
   [ValidInputs EXCEPT !.keywords = << >>],
   [ValidInputs EXCEPT !.keywords = <<" ", "">>],
   [ValidInputs EXCEPT !.frequency = "monthly"],
   [ValidInputs EXCEPT !.user_id = " "]}

\* str.strip() on the strings of TaskInputs
StripText(s) == IF s = " " THEN "" ELSE s

\* _validate_campaign_inputs: "ok", or the message of the ValueError it raises
ValidateCampaignInputs(inputs) ==
  IF StripText(inputs.campaign_name) = "" THEN "Le nom de la campagne ne peut pas etre vide"
  ELSE IF Len(inputs.keywords) = 0 THEN "Les mots-cles ne peuvent pas etre vides"
  ELSE IF SelectSeq(inputs.keywords, LAMBDA kw : StripText(kw) # "") = << >>
    THEN "Les mots-cles ne peuvent pas etre vides"
  ELSE IF inputs.frequency \notin Frequencies THEN "Frequence invalide"
  ELSE IF StripText(inputs.user_id) = "" THEN "User ID manquant"
  ELSE "ok"

\* the statements of the try block of _process_campaign_creation that touch
\* the task or call a creation step
TryBlock ==
  <<[op |-> "status", value |-> "processing"],
    [op |-> "progress", value |-> 10],
    [op |-> "validate"],
    [op |-> "progress", value |-> 20],
    [op |-> "step", name |-> "check_duplicate_campaigns"],
    [op |-> "progress", value |-> 30],
    [op |-> "step", name |-> "expand_campaign_keywords"],
    [op |-> "progress", value |-> 50],
    [op |-> "step", name |-> "test_rss_feeds"],
    [op |-> "progress", value |-> 70],
    [op |-> "create_in_db"],
    [op |-> "progress", value |-> 75],
    [op |-> "step", name |-> "setup_campaign_monitoring"],
    [op |-> "progress", value |-> 85],
    [op |-> "step", name |-> "process_campaign_articles"],
    [op |-> "progress", value |-> 100],
    [op |-> "status", value |-> "completed"],
    [op |-> "completed_at"],
    [op |-> "result"]>>

\* the statements of its except block
ExceptBlock ==
  <<[op |-> "status", value |-> "failed"],
    [op |-> "error_message"],
    [op |-> "completed_at"],
    [op |-> "progress", value |-> 0]>>

ThreadBody == TryBlock \o ExceptBlock

\* the statement after statement i: the thread ends after the last statement
\* of either block
NextStatement(i) == IF i = Len(TryBlock) \/ i = Len(ThreadBody) THEN 0 ELSE i + 1

\* one statement of _process_campaign_creation executed on the task.  The
\* steps test_rss_feeds, create_in_db and process_campaign_articles catch their
\* own exceptions: `ok` is whether the step's work succeeded.
Execute(task, now, ok) ==
  LET ins == ThreadBody[task.pc]
      after == [task EXCEPT !.pc = NextStatement(task.pc)]
  IN  CASE ins.op = "status" -> [after EXCEPT !.status = ins.value]
        [] ins.op = "progress" -> [after EXCEPT !.progress = ins.value]
        [] ins.op = "validate" ->
             IF ValidateCampaignInputs(task.inputs) = "ok" THEN after
             ELSE [task EXCEPT !.pc = Len(TryBlock) + 1]
        [] ins.op = "step" -> after
        [] ins.op = "create_in_db" ->
             [after EXCEPT !.campaign_id = IF ok THEN "stored" ELSE "fallback"]
        [] ins.op = "completed_at" -> [after EXCEPT !.completed_at = now]
        [] ins.op = "result" -> [after EXCEPT !.result = task.campaign_id]
        [] ins.op = "error_message" ->
             [after EXCEPT !.error_message = ValidateCampaignInputs(task.inputs)]

\* create_campaign_async: the task is stored and its thread started
CreateCampaignAsync(k, inputs) ==
  /\ tasks[k].status = "none"
  /\ tasks' = [tasks EXCEPT ![k] = [NoTask EXCEPT !.status = "pending", !.pc = 1,
                                                  !.created_at = clock, !.inputs = inputs]]
  /\ UNCHANGED <<scheduler, call, clock, tz, advances, runs, lastTick, db, created, sheet,
                 tickPc, tickQueue, run, lastTickRun, lastOutcome>>

\* the thread of _process_campaign_creation(task_id) executes its next statement
ProcessCampaignCreation(k) ==
  /\ tasks[k].pc # 0
  /\ \E ok \in BOOLEAN : tasks' = [tasks EXCEPT ![k] = Execute(tasks[k], clock, ok)]
  /\ UNCHANGED <<scheduler, call, clock, tz, advances, runs, lastTick, db, created, sheet,
                 tickPc, tickQueue, run, lastTickRun, lastOutcome>>

\* get_task_status(task_id), called by GET /api/tasks/<task_id>/status
GetTaskStatus(k) ==
  /\ call = NoCall
  /\ call' = [op |-> "get_task_status", task_id |-> k,
              result |-> IF tasks[k].status = "none" THEN [found |-> FALSE]
                         ELSE [found |-> TRUE, status |-> tasks[k].status,
                               progress |-> tasks[k].progress,
                               completed_at |-> tasks[k].completed_at,
                               error_message |-> tasks[k].error_message,
                               result |-> tasks[k].result]]
  /\ UNCHANGED <<tasks, scheduler, clock, tz, advances, runs, lastTick, db, created, sheet,
                 tickPc, tickQueue, run, lastTickRun, lastOutcome>>

\* --------------------------------------------------------- specifications
\* Scheduling and concurrency: one campaign made by the form or inserted
\* with empty keywords, the scheduler thread and one request thread.
Next ==
  \/ \E d \in {5, 55} : Advance(d, MaxAdvances)
  \/ TickQuery
  \/ TickDispatch(MaxRuns)
  \/ TickReturn
  \/ \E f \in {"15min", "hourly"} : SaveCampaign("c1", f, 25, TRUE, MaxRuns)
  \/ \E f \in {"15min", "hourly"} : InsertCampaign("c1", f, "empty")
  \/ RunCampaignById("c1", MaxRuns)
  \/ PauseCampaign("c1")
  \/ ResumeCampaign("c1")
  \/ DeleteCampaign("c1")
  \/ \E th \in Threads : Fetch(th, {<< >>, <<r3>>}, {<< >>})
  \/ \E th \in Threads : Save(th)
  \/ \E th \in Threads : StatsRead(th)
  \/ \E th \in Threads : StatsWrite(th)

Spec == Init /\ [][Next]_vars

\* Due-ness: every frequency, with the clock moving by up to a week.
NextDue ==
  \/ \E d \in Deltas : Advance(d, MaxAdvancesDue)
  \/ TickQuery
  \/ TickDispatch(MaxRunsDue)
  \/ TickReturn
  \/ \E f \in Frequencies : SaveCampaign("c1", f, 25, FALSE, MaxRunsDue)
  \/ \E th \in Threads : Fetch(th, {<< >>, <<r3>>}, {<< >>})
  \/ \E th \in Threads : Save(th)
  \/ \E th \in Threads : StatsRead(th)
  \/ \E th \in Threads : StatsWrite(th)

SpecDue == Init /\ [][NextDue]_vars

\* The pipeline of one run after the other in the request thread, with every
\* feed, both max_articles and both sink settings.
NextRun ==
  \/ \E d \in {5, 3 * Day} : Advance(d, MaxAdvances)
  \/ \E ma \in MaxArticlesChoices, sh \in BOOLEAN : SaveCampaign("c1", "hourly", ma, sh, MaxRuns)
  \/ RunCampaignById("c1", MaxRuns)
  \/ Fetch("web", RssFeeds, TweetFeeds)
  \/ Save("web")
  \/ StatsRead("web")
  \/ StatsWrite("web")

SpecRun == Init /\ [][NextRun]_vars

\* the saves of request articles into one sheet
NextSheet ==
  \/ \E articles \in Batches : SaveSearchResults("c1", articles, MaxRuns)
  \/ ReadExistingArticles("web")
  \/ AppendArticles("web")

SpecSheet == Init /\ [][NextSheet]_vars

\* the AI layer: relevance scoring and keyword expansion
NextAI ==
  \/ \E enhancer \in {"multi", "news"}, model \in AiModels, usable \in BOOLEAN :
       Score(enhancer, model, usable)
  \/ \E enhancer \in {"multi", "expander"}, model \in AiModels, usable \in BOOLEAN :
       Expand(enhancer, model, usable)
  \/ ForgetCall

SpecAI == Init /\ [][NextAI]_vars

\* the fetch of one run with its sources and the expansion
NextFetch ==
  \/ FetchCall
  \/ ForgetCall

SpecFetch == Init /\ [][NextFetch]_vars

\* the scheduler started and stopped while campaigns are made and run
NextLifecycle ==
  \/ Start
  \/ Stop
  \/ \E d \in {5, 55} : Advance(d, MaxAdvances)
  \/ TickQuery
  \/ TickDispatch(MaxRuns)
  \/ TickReturn
  \/ \E f \in {"15min", "hourly"} : SaveCampaign("c1", f, 25, FALSE, MaxRuns)
  \/ \E th \in Threads : Fetch(th, {<< >>, <<r3>>}, {<< >>})
  \/ \E th \in Threads : Save(th)
  \/ \E th \in Threads : StatsRead(th)
  \/ \E th \in Threads : StatsWrite(th)

SpecLifecycle == Init /\ [][NextLifecycle]_vars

\* the asynchronous campaign creation: tasks, their threads and the status readers
NextAsync ==
  \/ \E k \in TaskIds, inputs \in TaskInputs : CreateCampaignAsync(k, inputs)
  \/ \E k \in TaskIds : ProcessCampaignCreation(k)
  \/ \E k \in TaskIds : GetTaskStatus(k)
  \/ ForgetCall

SpecAsync == Init /\ [][NextAsync]_vars

\* ------------------------------------------------------------------ claims
\* the ids of the campaign dicts in a campaigns_to_run list
QueueIds(queue) == {queue[i].c : i \in DOMAIN queue}

\* the real time that passed since the campaign's last_check was written
Elapsed(row) == clock - row.last_check

\* C1: for every active campaign and each of the four frequencies, a tick's
\* get_campaigns_for_execution returns the campaign if and only if last_check
\* is null or the time since last_check is at least the frequency's interval.
C1_DueIffIntervalElapsed ==
  [][TickQuery =>
       \A c \in CampaignIds :
         db[c].status = "active" =>
           (c \in QueueIds(tickQueue') <=>
              (db[c].last_check = NoTime \/ Elapsed(db[c]) >= Interval(db[c].frequency)))]_vars

\* C2: at no time are two executions of run_campaign for one campaign id in
\* progress, whichever of the tick, the create request and
\* run_campaign(campaign_id) started them.
C2_NoConcurrentRuns ==
  ~(/\ run["sched"].pc # "idle"
    /\ run["web"].pc # "idle"
    /\ run["sched"].c = run["web"].c)

C4_MinimumInterRunInterval ==
  [][TickDispatch(MaxRunsDue) =>
       LET c == Head(tickQueue).c
       IN lastTickRun[c] # NoTime =>
            clock - lastTickRun[c] >= Interval(db[c].frequency)]_vars

\* a step by which the thread returns from run_campaign
Returns(th) == run[th].pc # "idle" /\ run'[th].pc = "idle"

\* the step is the except clause after the fetch raised on empty keywords
Aborts(th) == Returns(th) /\ run[th].pc = "fetch" /\ run[th].keywords = "empty"

\* C5: every run that is not aborted writes last_check exactly once, when it
\* returns and after the persist step succeeded or was a no-op, also when it
\* found zero items.
C5_LastCheckOncePerRun ==
  [][\A th \in Threads :
       LET c == run[th].c
       IN /\ (Returns(th) /\ ~Aborts(th)) =>
               /\ db'[c].last_check = clock
               /\ run[th].saved # "failed"
          /\ (~Returns(th) /\ run[th].pc # "idle") =>
               db'[c].last_check = db[c].last_check]_vars

\* the step is a run_campaign(campaign_id) that found no campaign to run
NotFound == runs' = runs + 1 /\ run' = run

\* C6: a run that aborts because the fetch raised, or because the campaign
\* was not found, leaves the campaign rows as they were (last_check,
\* total_articles and articles_today included), and a campaign whose
\* tick-started run aborted is returned by get_campaigns_for_execution again
\* while it stays active.
C6_AbortLeavesCampaignDue ==
  [][/\ \A th \in Threads :
          Aborts(th) =>
            /\ db' = db
            /\ (th = "sched" /\ db[run[th].c].status = "active") =>
                 run[th].c \in Range(GetCampaignsForExecution(db', created', Now(clock', tz')))
     /\ NotFound => db' = db]_vars

\* C6 witness: a tick started a run of an active campaign, the run aborted,
\* and the campaign's last_check is still null.
C6_Witness ==
  /\ lastOutcome = "aborted"
  /\ lastTickRun["c1"] # NoTime
  /\ run["sched"].pc = "idle"
  /\ db["c1"].status = "active"
  /\ db["c1"].last_check = NoTime
  /\ "c1" \in Range(GetCampaignsForExecution(db, created, Now(clock, tz)))

\* the step is the UPDATE that ends update_campaign_stats
WritesStats(th) ==
  run[th].pc = "stats_write" /\ run'[th].pc = "idle" /\ Exists(db[run[th].c])

\* C7: a run that saved to its sink raises total_articles and articles_today
\* by the number of rows the sink accepted in that run, not by the number of
\* fetched items.
C7_CountersCountAcceptedRows ==
  [][(WritesStats("web") /\ run["web"].saved = "saved") =>
       LET c == run["web"].c
       IN /\ db'[c].total_articles = db[c].total_articles + Len(run["web"].written)
          /\ db'[c].articles_today \in {Len(run["web"].written),
                                        db[c].articles_today + Len(run["web"].written)}]_vars

\* the calendar date, on the host's clock, of a stored UTC timestamp
LocalDate(utc) == DateOf(Now(utc, tz))

\* C8: update_campaign_stats sets articles_today to n when the stored
\* last_articles_date is a day other than today, to the old value plus n when
\* it is today, and the stored date becomes today.
C8_DailyRollover ==
  [][/\ (run["web"].pc = "stats" /\ run'["web"].pc = "stats_write") =>
          LET row == db[run["web"].c]
              n == Len(run["web"].articles)
          IN run'["web"].new_today =
               IF row.last_articles_date # NoTime
                    /\ LocalDate(row.last_articles_date) = LocalDate(clock)
               THEN row.articles_today + n
               ELSE n
     /\ WritesStats("web") =>
          LocalDate(db'[run["web"].c].last_articles_date) = LocalDate(clock)]_vars

\* C9: the newest date of the campaign's sink never decreases, and after a
\* run that fetched items and saved to the sink it is at least the newest date
\* of the fetched items.
C9_CursorAdvancesToNewestFetched ==
  [][/\ \A c \in CampaignIds : MaxDate(sheet'[c]) >= MaxDate(sheet[c])
     /\ (run["web"].pc = "stats" /\ run["web"].saved = "saved") =>
          MaxDate(sheet[run["web"].c]) >= MaxDate(run["web"].articles)]_vars

\* the ids of the rows of a sheet
RowIds(rows) == {rows[i].id : i \in DOMAIN rows}

\* C10: a run whose items are all in the sink already writes no row.
C10_SecondRunWritesNothing ==
  [][(/\ run["web"].pc = "save"
      /\ RowIds(run["web"].articles) \subseteq RowIds(sheet[run["web"].c])) =>
       sheet' = sheet]_vars

\* the step appends rows to the sheet of the save's campaign after the
\* existing rows were read
AppendsAfterRead ==
  /\ run["web"].pc = "sheet_append"
  /\ run["web"].saved = "read"
  /\ sheet' # sheet

\* the rows the step appended
Appended == SubSeq(sheet'["c1"], Len(sheet["c1"]) + 1, Len(sheet'["c1"]))

\* C11: no two rows appended by one save share an identity key, and no
\* appended row has an identity key that was in the sink before the save.
C11_FirstOccurrenceOnly ==
  [][AppendsAfterRead =>
       /\ \A i, j \in DOMAIN Appended :
            i # j => RowIdentifier(Appended[i]) # RowIdentifier(Appended[j])
       /\ \A i \in DOMAIN Appended :
            RowIdentifier(Appended[i]) \notin ExistingArticles(sheet["c1"])]_vars

\* the identity key of the specification for an article: title and url
\* trimmed, unwrapped from HTML and lower-cased
NormalizedKey(article) ==
  <<Lower(Strip(article.title)), Lower(Strip(ExtractHref(Strip(article.url))))>>

\* C12: items whose title and url differ only in letter case or surrounding
\* whitespace have one identity key and only the first of them is written:
\* a save appends at most one row for each normalized key of its batch that
\* no row of the sink has.
C12_KeyIgnoresCaseAndWhitespace ==
  [][AppendsAfterRead =>
       Len(Appended) <=
         Cardinality({NormalizedKey(a) : a \in Range(run["web"].articles)}
                       \ {NormalizedKey(r) : r \in Range(sheet["c1"])})]_vars

\* C13: a failed read of the existing rows does not end the save: the save
\* goes on with an empty existing_articles, and the rows it then appends are
\* those of all recent articles with a title and a url, deduplicated within
\* the batch.
C13_ReadFailureAssumesEmpty ==
  [][/\ (run["web"].pc = "sheet_save" /\ run'["web"].pc = "idle") =>
          lastOutcome' \in {"no_service", "no_recent"}
     /\ run'["web"].pc = "sheet_append" =>
          (run'["web"].saved = "unread" => run'["web"].existing = {})
     /\ (run["web"].pc = "sheet_append" /\ run["web"].saved = "unread"
           /\ lastOutcome' = "saved") =>
          Appended = NewRows(run["web"].articles, {})]_vars

\* C13 witness: the sheet holds a row, the read of a later save failed, and
\* the save appended its two distinct articles, the one of that row included.
C13_Witness ==
  /\ lastOutcome = "saved"
  /\ Len(sheet["c1"]) = 3
  /\ sheet["c1"][1] = SheetRow(aPlain)
  /\ sheet["c1"][2] = SheetRow(aOther)
  /\ sheet["c1"][3] = SheetRow(aPlain)

\* ---- relevance scoring
Scored == call.op = "score"

FirstAnswer == IF call.answers = << >> THEN "none" ELSE Head(call.answers).kind

\* the configured provider did not deliver a number
ProviderFailed ==
  /\ Scored
  /\ call.provider # "basic"
  /\ FirstAnswer \in {"http_error", "exception", "no_number"}

\* the score of the deterministic keyword heuristic of the enhancer for the item
HeuristicScore ==
  IF call.enhancer = "multi"
  THEN ScoreBasic(call.article, call.keywords)
  ELSE SimpleRelevanceScore(call.article.titre \o call.article.resume, call.keywords)

\* C14 as stated: score_article_relevance returns a score and raises nothing for
\* every item and every provider outcome, and when the configured provider fails
\* the score is exactly the keyword heuristic's score for the item.
C14_FailureScoreIsHeuristic ==
  Scored =>
    /\ ~call.result.raised
    /\ ProviderFailed => call.result.score = HeuristicScore

\* C16: a provider that fails transiently twice and then succeeds gives the
\* score, with at most two retries; the keyword heuristic is used only once the
\* configured providers are exhausted.
C16_TransientFailureIsRetried ==
  (Scored /\ call.answers = TransientTwice) =>
    /\ call.result.score = Clamp(call.answers[3].n)
    /\ call.result.requests - 1 <= 2

\* ---- keyword expansion
Expands == call.op = "expand"

\* every request of the call failed
ExpandFailed ==
  /\ Expands
  /\ call.result.requests >= 1
  /\ call.answers[call.result.requests] # "ok"

\* C15: when every configured expansion provider fails, expand_keywords raises
\* nothing and returns the expansion terms of the deterministic fallback.
C15_ExpandReturnsFallbackTerms ==
  ExpandFailed =>
    /\ ~call.result.raised
    /\ call.result.terms \in ExpandSemanticBasic(call.keywords, call.relevant_words)

\* ---- fetch_articles_multi_source
Fetched == call.op = "fetch"

\* rss_articles + social_articles, as far as the sources delivered
CollectedArticles ==
  (IF call.rss.raises THEN << >> ELSE FetchArticlesRss(call.rss.items, call.max_items))
    \o FetchTwitterArticles(SocialArticles(call.social))

\* C17: when the keyword expansion raises or yields no terms, nothing is raised
\* out of fetch_articles_multi_source and it returns the items fetched for the
\* original keywords.
C17_ExpansionFailureNotFatal ==
  (Fetched /\ ~call.rss.raises /\ call.expansion \in {"raises", "none"}) =>
    /\ ~call.result.raised
    /\ call.result.articles = Take(CollectedArticles, call.max_items)

C17_Witness ==
  /\ Fetched
  /\ call.expansion = "raises"
  /\ Len(CollectedArticles) >= SuggestionThreshold
  /\ ~call.result.raised
  /\ Len(call.result.articles) = SuggestionThreshold

\* C18: a failing source counts as zero items: when the RSS source or the social
\* source fails, fetch_articles_multi_source raises nothing and returns what the
\* other source delivered.
C18_SourceErrorIsZeroItems ==
  (Fetched /\ (call.rss.raises \/ call.social.raises)) =>
    /\ ~call.result.raised
    /\ \E expanded \in BOOLEAN :
         call.result.articles =
           FetchArticlesMultiSource(IF call.rss.raises THEN << >> ELSE call.rss.items,
                                    SocialArticles(call.social), call.max_items, expanded,
                                    Now(clock, tz))

\* C19: update_campaign_stats is an atomic read-modify-write: every call adds
\* its count to the total the row holds when it writes, so two concurrent calls
\* with counts a and b raise total_articles by a + b.
C19_NoLostUpdate ==
  [][\A th \in Threads :
       (WritesStats(th) /\ Exists(db[run[th].c]))
         => db'[run[th].c].total_articles
              = db[run[th].c].total_articles + Len(run[th].articles)]_vars

\* C20: start() on a started scheduler and stop() on a stopped one complete
\* without error and leave the state of a single call: one 'campaign_checker'
\* job while started, no tick after stop.
C20_StartStopIdempotent ==
  /\ scheduler.raised = "none"
  /\ scheduler.state = "running" => scheduler.jobs = <<"campaign_checker">>

\* C21: once stop() has returned, no campaign run is executing: the runs started
\* before the stop are through and no run starts afterwards.
C21_StopDrainsRuns ==
  scheduler.state = "stopped" =>
    /\ tickPc = "idle"
    /\ \A th \in Threads : run[th].pc = "idle"

\* C22: max_items caps a run: what fetch_articles_multi_source hands to the run,
\* what the run writes to the sink and what it adds to total_articles are each at
\* most max_items items.
C22_MaxItemsCapsRun ==
  \A th \in Threads :
    /\ Len(run[th].articles) <= run[th].max_articles
    /\ Len(run[th].written) <= run[th].max_articles
    /\ run[th].pc = "stats_write" =>
         run[th].new_total - db[run[th].c].total_articles <= run[th].max_articles

\* the second tweet of the search was cut off
C22_Witness ==
  /\ run["web"].pc = "stats_write"
  /\ run["web"].max_articles = 2
  /\ run["web"].articles = <<r3, t1>>

\* ---- the retry loop of the OpenAI expansion
OpenaiExpansion ==
  Expands /\ call.enhancer = "expander" /\ call.model = "openai-gpt3.5" /\ call.usable

\* the failures worth a retry: timeout, 5xx, rate limit without quota error; an
\* exception of the request counts as a network failure
Transient == {"timeout", "server_error", "rate_limit", "exception"}

Permanent == {"unauthorized", "quota"}

\* C23: one provider call sends at most 3 requests, retries only transient
\* failures, sleeps before retry k at least base_delay * 2^(k-1) seconds, and
\* ends with a result.
C23_RetriesBoundedAndTransientOnly ==
  OpenaiExpansion =>
    /\ ~call.result.raised
    /\ call.result.requests <= 3
    /\ \A k \in 1..Len(call.result.slept) :
         /\ call.answers[k] \in Transient
         /\ call.result.slept[k] >= BaseDelay * Pow(2, k - 1)

RetryGap(k) == Duration(call.answers[k]) + call.result.slept[k]

\* C25: two consecutive requests of one AIKeywordExpander to the OpenAI API are
\* at least min_request_interval seconds apart, the retries of one call included.
C25_RequestsApart ==
  (OpenaiExpansion /\ call.result.requests >= 1) =>
    /\ call.since_last + call.result.waited >= MinRequestInterval
    /\ \A k \in 1..Len(call.result.slept) : RetryGap(k) >= MinRequestInterval

\* C26: the steps of a run execute in the order expand, fetch, persist, update
\* stats; in particular the keyword expansion is through before a content source
\* is queried.
C26_ExpandBeforeFetch ==
  Fetched =>
    \A i, j \in DOMAIN call.steps :
      (call.steps[i] = "expand" /\ call.steps[j] \in {"rss", "social"}) => i < j

\* ---- write order
AppendsRows == run["web"].pc = "sheet_append" /\ sheet' # sheet

\* C27: the rows one save appends are in non-decreasing order of date, and of
\* the items of the batch with one identity key the oldest is the one written.
C27_OldestFirst ==
  [][AppendsRows =>
       /\ \A i, j \in DOMAIN Appended : i < j => Appended[i].date <= Appended[j].date
       /\ \A i \in DOMAIN Appended :
            \E a \in Range(run["web"].articles) :
              /\ SheetRow(a) = Appended[i]
              /\ \A b \in Range(run["web"].articles) :
                   Identifier(b) = Identifier(a) => a.date <= b.date]_vars

\* ---- asynchronous campaign creation
Terminal == {"completed", "failed"}

StatusMachine ==
  {<<"none", "pending">>, <<"pending", "processing">>,
   <<"processing", "completed">>, <<"processing", "failed">>}

\* C28: the status of a creation task only moves pending -> processing ->
\* completed or failed, a terminal status never changes, and completed_at is
\* set exactly when the status is terminal.
C28_StatusMachine ==
  /\ [][\A k \in TaskIds :
          tasks'[k].status # tasks[k].status =>
            <<tasks[k].status, tasks'[k].status>> \in StatusMachine]_vars
  /\ [](\A k \in TaskIds :
          tasks[k].completed_at # NoTime <=> tasks[k].status \in Terminal)

\* ---- campaign counters
\* C29: in every state the articles_today of a campaign is at most its
\* total_articles, and no step lowers total_articles, whatever the counts and
\* the days of the update_campaign_stats calls.
C29_CountersConsistent ==
  /\ [](\A c \in CampaignIds : db[c].articles_today <= db[c].total_articles)
  /\ [][\A c \in CampaignIds : db[c].total_articles <= db'[c].total_articles]_vars

\* two calls with positive counts, the second on another day than the first
C29_Witness ==
  /\ runs = 2
  /\ run["web"].pc = "idle"
  /\ lastOutcome = "completed"
  /\ db["c1"].articles_today > 0
  /\ db["c1"].articles_today < db["c1"].total_articles
  /\ DateOf(db["c1"].last_check) # DateOf(StartClock)

\* ---- the suggestion entry
FromContentSource(a) == a.source # "AI Suggestions"

\* C30: every row a run writes to the sink and every item it adds to
\* total_articles comes from the RSS or the social source, never the
\* 'AI Suggestions' entry.
C30_SuggestionNotPersisted ==
  /\ \A c \in CampaignIds : \A i \in DOMAIN sheet[c] : FromContentSource(sheet[c][i])
  /\ \A th \in Threads :
       run[th].pc = "stats_write" =>
         run[th].new_total - db[run[th].c].total_articles
           <= Len(SelectSeq(run[th].articles, FromContentSource))

====
